---- MODULE Spec2Model ----
(***************************************************************************)
(* Crowdsense: the alert debouncer of pi_stream.py (the streaming          *)
(* variant's main loop).  One frame of the loop counts the detections,     *)
(* updates the consecutive-frame counter, derives the display status and   *)
(* prints a rate-limited alert.                                            *)
(*                                                                         *)
(* Time is measured in ticks of one frame period (1/FPS_LIMIT seconds):    *)
(* the FPS limiter at the end of the loop pads every iteration to at       *)
(* least one frame period, so the clock advances by at least one tick per  *)
(* frame.  A stalled iteration (slow inference, slow send) advances it by  *)
(* StallTicks instead.                                                     *)
(***************************************************************************)
EXTENDS Integers, Sequences, FiniteSets, TLC

(* ---- configuration of pi_stream.py ---- *)
WARNING_LIMIT == 30
CRITICAL_LIMIT == 50
FPS_LIMIT == 15
REQUIRED_SECONDS == 3
BUFFER_SIZE == FPS_LIMIT * REQUIRED_SECONDS
ALERT_COOLDOWN_SECONDS == 5
CooldownTicks == ALERT_COOLDOWN_SECONDS * FPS_LIMIT

(* ---- bounds of the model ---- *)
MaxFrames == 95
StallTicks == 70
MaxTime == 270
StartTime == 100
HistoryFrames == 6
PairFrames == 53
ClassifierFrames == 8
AppFrames == 22

(* Person counts the detector may report: both sides of each threshold.    *)
Counts == {0, WARNING_LIMIT, WARNING_LIMIT + 1, CRITICAL_LIMIT, CRITICAL_LIMIT + 1}

(* Time one loop iteration may take, in ticks. *)
Delays == {1, StallTicks}

(* Ticks that may pass between the two clock reads of an alert.            *)
ReadGaps == {0, 1}

NORMAL == "Normal"
WARNING == "High Density"
CRITICAL == "CRITICAL RISK"

(* The thresholds and the time buffer the loop runs with. *)
PiConfig ==
    [warning_threshold |-> WARNING_LIMIT,
     critical_threshold |-> CRITICAL_LIMIT,
     persistence_window |-> BUFFER_SIZE]

VARIABLES
    running,                      \* the main loop has not hit `break`
    total_persons,                \* count of the frame processed last
    consecutive_critical_frames,
    last_alert_time,
    display_status,
    now,                          \* clock at the alert check of the last frame
    alerted,                      \* history: the last frame printed an alert
    frames_seen,                  \* history: frames processed so far
    last_low_frame,               \* history: index of the last frame with count <= critical threshold
    prev_status,                  \* history: display_status of the frame before the last
    alert_time,                   \* history: clock at the last alert print, -1 if none
    alerts_emitted,               \* history: alerts printed so far
    at_or_above_run,              \* history: trailing frames with count >= critical threshold,
                                  \*   kept for the first HistoryFrames frames, then -1
    status_log,                   \* history: the statuses of a scripted run, in order
    shadow,                       \* a second run of the loop on the same counts, with its own clock
    \* app.py: st.session_state
    page,
    video_source,
    theme,
    prev_page,                    \* history: the page before the last change of page
    \* app.py: the locals of the frame loop of show_live / show_analysis
    streaming,                    \* the script run is inside the `while cap.isOpened()` loop
    frame_count,
    app_display_status,           \* display_status of app.py
    display_density,
    display_css,
    app_count,                    \* count, status, css: what process_frame returned last
    status_text,
    css_class

piVars == <<running, total_persons, consecutive_critical_frames, last_alert_time,
            display_status, now, alerted, frames_seen, last_low_frame, prev_status,
            alert_time, alerts_emitted, at_or_above_run, status_log, shadow>>

sessionVars == <<page, video_source, theme, prev_page>>

loopVars == <<streaming, frame_count, app_display_status, display_density, display_css,
              app_count, status_text, css_class>>

appVars == <<sessionVars, loopVars>>

vars == <<piVars, appVars>>

(* ---- the frame step, parameterised by the configuration ---- *)

\* variant: the comparison admits a count equal to the threshold
UpdateStreakAtOrAbove(count, streak, critical_threshold) ==
    IF count >= critical_threshold THEN streak + 1 ELSE 0

\* variant: the else branch that resets the counter is missing
UpdateStreakNoReset(count, streak, critical_threshold) ==
    IF count > critical_threshold THEN streak + 1 ELSE streak

\* variant: a drop lowers the counter by one instead of resetting it
UpdateStreakDecay(count, streak, critical_threshold) ==
    IF count > critical_threshold THEN streak + 1
    ELSE IF streak > 0 THEN streak - 1 ELSE 0

\* 3. FALSE ALARM FILTER
UpdateStreak(count, streak, critical_threshold) ==
    IF count > critical_threshold THEN streak + 1 ELSE 0

\* variant: the buffer comparison is >= instead of >
IsCriticalAtWindow(streak, persistence_window) ==
    streak >= persistence_window

\* variant: Critical only on the frame that fills the buffer
IsCriticalOnce(streak, persistence_window) ==
    streak = persistence_window + 1

\* "Only go CRITICAL if it persisted for the full buffer duration"
IsCritical(streak, persistence_window) ==
    streak > persistence_window

\* variant: the warning comparison admits a count equal to the threshold
DetermineStatusAtWarning(count, streak, warning_threshold, persistence_window) ==
    IF streak > persistence_window THEN CRITICAL
    ELSE IF count >= warning_threshold THEN WARNING
    ELSE NORMAL

\* Determine Status
DetermineStatus(count, streak, warning_threshold, persistence_window) ==
    IF IsCritical(streak, persistence_window) THEN CRITICAL
    ELSE IF count > warning_threshold THEN WARNING
    ELSE NORMAL

\* variant: the rate limit is missing
CooldownIgnored(t, last) ==
    TRUE

\* variant: the operands of the subtraction are swapped
CooldownOperandsSwapped(t, last) ==
    last - t > CooldownTicks

\* the rate limit of the alert print
CooldownElapsed(t, last) ==
    t - last > CooldownTicks

\* variant: the alert print sits outside the Critical branch
AlertDueAnyStatus(streak, persistence_window, t, last) ==
    t - last > CooldownTicks

AlertDue(streak, persistence_window, t, last) ==
    IsCritical(streak, persistence_window) /\ CooldownElapsed(t, last)

\* variant: a frame without an alert clears last_alert_time
StampAlertClearedWhenQuiet(due, t2, last) ==
    IF due THEN t2 ELSE 0

\* last_alert_time after the frame: the second clock read when the alert is printed
StampAlert(due, t2, last) ==
    IF due THEN t2 ELSE last

\* variant: the status assignment sits inside the rate-limited branch
DebounceStatusRateLimited(cfg, count, streak, last, t, t2) ==
    LET s == IF count > cfg.critical_threshold THEN streak + 1 ELSE 0
        due == s > cfg.persistence_window /\ t - last > CooldownTicks
    IN  [consecutive_critical_frames |-> s,
         display_status |-> IF due THEN CRITICAL
                            ELSE IF count > cfg.warning_threshold THEN WARNING
                            ELSE NORMAL,
         alerted |-> due,
         last_alert_time |-> IF due THEN t2 ELSE last]

\* Steps 3 to "Determine Status" of one iteration: the frame's count, the
\* counter and last_alert_time before it, the clock at the alert check (t)
\* and at the assignment of last_alert_time (t2).
Debounce(cfg, count, streak, last, t, t2) ==
    LET s == UpdateStreak(count, streak, cfg.critical_threshold)
        due == AlertDue(s, cfg.persistence_window, t, last)
    IN  [consecutive_critical_frames |-> s,
         display_status |-> DetermineStatus(count, s, cfg.warning_threshold,
                                            cfg.persistence_window),
         alerted |-> due,
         last_alert_time |-> StampAlert(due, t2, last)]

ProcessFrame(cfg, count, dt, gap) ==
    LET t == now + dt
        r == Debounce(cfg, count, consecutive_critical_frames, last_alert_time, t, t + gap)
    IN  /\ total_persons' = count
        /\ consecutive_critical_frames' = r.consecutive_critical_frames
        /\ display_status' = r.display_status
        /\ last_alert_time' = r.last_alert_time
        /\ now' = t
        /\ alerted' = r.alerted
        /\ frames_seen' = frames_seen + 1
        /\ last_low_frame' = IF count > cfg.critical_threshold THEN last_low_frame
                             ELSE frames_seen + 1
        /\ prev_status' = display_status
        /\ alert_time' = IF r.alerted THEN t ELSE alert_time
        /\ alerts_emitted' = IF r.alerted THEN alerts_emitted + 1 ELSE alerts_emitted
        /\ at_or_above_run' = IF frames_seen >= HistoryFrames THEN -1
                              ELSE IF count >= cfg.critical_threshold
                                   THEN at_or_above_run + 1 ELSE 0

(* ---- app.py: the Streamlit dashboard ---- *)

NoSource == "None"

\* what st.file_uploader may hand over (type=["mp4", "avi"])
UploadedFiles == {"clip.mp4", "clip.avi"}

\* Person counts process_frame may see: both sides of its two thresholds.
AppCounts == {0, 20, 21, 25, 26}

INITIALIZING == "Initializing..."

\* `if frame_count % 10 == 0`
REFRESH_EVERY == 10

\* create_density_bar: the count, the label and the filled cells of the bar
create_density_bar(n) ==
    [people |-> n,
     label |-> "People detected",
     filled |-> IF n >= 100 THEN 10 ELSE (10 * n) \div 100]

\* display_density before the first refresh: "0 People" and an empty bar
InitialDensity ==
    [people |-> 0, label |-> "People", filled |-> 0]

\* variant: the comparisons admit a count equal to the threshold
process_frame_at_or_above(n) ==
    [total_persons |-> n,
     status_text |-> IF n >= 25 THEN CRITICAL ELSE IF n >= 20 THEN WARNING ELSE NORMAL,
     css_class |-> IF n >= 25 THEN "status-critical"
                   ELSE IF n >= 20 THEN "status-warning" ELSE "status-normal"]

\* process_frame, from the number of boxes the detector returned
process_frame(n) ==
    [total_persons |-> n,
     status_text |-> IF n > 25 THEN CRITICAL ELSE IF n > 20 THEN WARNING ELSE NORMAL,
     css_class |-> IF n > 25 THEN "status-critical"
                   ELSE IF n > 20 THEN "status-warning" ELSE "status-normal"]

\* "3. Determine Status" of the checkpoint copy of the app (RISK_LIMIT = 25)
checkpoint_status(n) ==
    IF n > 25 THEN CRITICAL ELSE IF n > 20 THEN WARNING ELSE NORMAL

\* the locals of a frame loop before its first frame
LoopStart(open) ==
    /\ streaming' = open
    /\ frame_count' = 0
    /\ app_display_status' = INITIALIZING
    /\ display_density' = InitialDensity
    /\ display_css' = "status-normal"
    /\ app_count' = 0
    /\ status_text' = NORMAL
    /\ css_class' = "status-normal"

AppInit ==
    /\ page = "home"
    /\ video_source = NoSource
    /\ theme = "light"
    /\ prev_page = "home"
    /\ streaming = FALSE
    /\ frame_count = 0
    /\ app_display_status = INITIALIZING
    /\ display_density = InitialDensity
    /\ display_css = "status-normal"
    /\ app_count = 0
    /\ status_text = NORMAL
    /\ css_class = "status-normal"

\* "Global Variables" and the state before the first frame
InitialRun ==
    [consecutive_critical_frames |-> 0,
     last_alert_time |-> 0,
     display_status |-> NORMAL,
     now |-> StartTime,
     alerted |-> FALSE]

Init ==
    /\ running = TRUE
    /\ total_persons = 0
    /\ consecutive_critical_frames = InitialRun.consecutive_critical_frames
    /\ last_alert_time = InitialRun.last_alert_time
    /\ display_status = InitialRun.display_status
    /\ now = InitialRun.now
    /\ alerted = InitialRun.alerted
    /\ frames_seen = 0
    /\ last_low_frame = 0
    /\ prev_status = NORMAL
    /\ alert_time = -1
    /\ alerts_emitted = 0
    /\ at_or_above_run = 0
    /\ status_log = << >>
    /\ shadow = InitialRun
    /\ AppInit

\* one iteration of `while True` with a frame read
MainLoop ==
    /\ running
    /\ frames_seen < MaxFrames
    /\ \E count \in Counts, dt \in Delays, gap \in ReadGaps :
          /\ gap <= dt
          /\ now + dt <= MaxTime
          /\ ProcessFrame(PiConfig, count, dt, gap)
    /\ UNCHANGED <<running, status_log, shadow, appVars>>

\* `if not ret: break`
CaptureEnd ==
    /\ running
    /\ running' = FALSE
    /\ UNCHANGED <<total_persons, consecutive_critical_frames, last_alert_time,
                   display_status, now, alerted, frames_seen, last_low_frame,
                   prev_status, alert_time, alerts_emitted, at_or_above_run,
                   status_log, shadow, appVars>>

Next == MainLoop \/ CaptureEnd

Spec == Init /\ [][Next]_vars

(* ---- the scenario of the specification's testable properties ---- *)

ScenarioConfig ==
    [warning_threshold |-> 20,
     critical_threshold |-> 25,
     persistence_window |-> 3]

ScenarioCounts == <<30, 30, 30, 30, 10, 30, 30, 30, 30>>

ScenarioStatuses ==
    <<WARNING, WARNING, WARNING, CRITICAL, NORMAL, WARNING, WARNING, WARNING, CRITICAL>>

\* one iteration of the loop under ScenarioConfig, fed the next scripted count
ScenarioLoop ==
    /\ running
    /\ frames_seen < Len(ScenarioCounts)
    /\ \E dt \in Delays, gap \in ReadGaps :
          /\ gap <= dt
          /\ now + dt <= MaxTime
          /\ ProcessFrame(ScenarioConfig, ScenarioCounts[frames_seen + 1], dt, gap)
    /\ status_log' = Append(status_log, display_status')
    /\ UNCHANGED <<running, shadow, appVars>>

NextScenario == ScenarioLoop \/ CaptureEnd

SpecScenario == Init /\ [][NextScenario]_vars

(* ---- two runs of the loop on the same counts, each with its own timing ---- *)

ShadowFrame(cfg, count, dt, gap) ==
    LET t == shadow.now + dt
        r == Debounce(cfg, count, shadow.consecutive_critical_frames,
                      shadow.last_alert_time, t, t + gap)
    IN  shadow' = [consecutive_critical_frames |-> r.consecutive_critical_frames,
                   last_alert_time |-> r.last_alert_time,
                   display_status |-> r.display_status,
                   now |-> t,
                   alerted |-> r.alerted]

PairLoop ==
    /\ running
    /\ frames_seen < PairFrames
    /\ \E count \in Counts, dt \in Delays, gap \in ReadGaps,
          dt2 \in Delays, gap2 \in ReadGaps :
          /\ gap <= dt
          /\ gap2 <= dt2
          /\ now + dt <= MaxTime
          /\ shadow.now + dt2 <= MaxTime
          /\ ProcessFrame(PiConfig, count, dt, gap)
          /\ ShadowFrame(PiConfig, count, dt2, gap2)
    /\ UNCHANGED <<running, status_log, appVars>>

NextPair == PairLoop \/ CaptureEnd

SpecPair == Init /\ [][NextPair]_vars

(* ---- the classifier of app.py beside the debouncer without a time buffer ---- *)

\* the thresholds of process_frame, and no persistence window
UiConfig ==
    [warning_threshold |-> 20,
     critical_threshold |-> 25,
     persistence_window |-> 0]

\* one frame, handed both to the loop of pi_stream.py run under UiConfig and
\* to process_frame
ClassifierLoop ==
    /\ running
    /\ frames_seen < ClassifierFrames
    /\ \E n \in AppCounts, dt \in Delays, gap \in ReadGaps :
          /\ gap <= dt
          /\ now + dt <= MaxTime
          /\ ProcessFrame(UiConfig, n, dt, gap)
          /\ app_count' = process_frame(n).total_persons
          /\ status_text' = process_frame(n).status_text
          /\ css_class' = process_frame(n).css_class
    /\ UNCHANGED <<running, status_log, shadow, sessionVars, streaming, frame_count,
                   app_display_status, display_density, display_css>>

NextClassifier == ClassifierLoop \/ CaptureEnd

SpecClassifier == Init /\ [][NextClassifier]_vars

(* ---- the pages of app.py ---- *)

\* a script run that reaches show_live / show_analysis starts the frame loop
\* afresh, if the capture opens
EnterLoop ==
    \E open \in BOOLEAN : LoopStart(open)

\* show_home: "Start Live Webcam Feed"
StartLive ==
    /\ page = "home"
    /\ page' = "live"
    /\ prev_page' = page
    /\ EnterLoop
    /\ UNCHANGED <<video_source, theme, piVars>>

\* show_home: "Analyze Uploaded Media", once a file is uploaded
AnalyzeUpload ==
    /\ page = "home"
    /\ \E uploaded_file \in UploadedFiles : video_source' = uploaded_file
    /\ page' = "analysis"
    /\ prev_page' = page
    /\ EnterLoop
    /\ UNCHANGED <<theme, piVars>>

\* show_live: the back button
LiveBack ==
    /\ page = "live"
    /\ page' = "home"
    /\ prev_page' = page
    /\ LoopStart(FALSE)
    /\ UNCHANGED <<video_source, theme, piVars>>

\* variant: the back button leaves video_source set
AnalysisBackKeepsSource ==
    /\ page = "analysis"
    /\ page' = "home"
    /\ prev_page' = page
    /\ LoopStart(FALSE)
    /\ UNCHANGED <<video_source, theme, piVars>>

\* show_analysis: the back button
AnalysisBack ==
    /\ page = "analysis"
    /\ page' = "home"
    /\ video_source' = NoSource
    /\ prev_page' = page
    /\ LoopStart(FALSE)
    /\ UNCHANGED <<theme, piVars>>

\* the sidebar radio: the theme changes and the script reruns on the same page
ToggleTheme ==
    /\ theme' = IF theme = "light" THEN "dark" ELSE "light"
    /\ IF page = "home" THEN LoopStart(FALSE) ELSE EnterLoop
    /\ UNCHANGED <<page, video_source, prev_page, piVars>>

\* variant: the test runs before frame_count is incremented
IsRefreshFrameBeforeIncrement(n) ==
    (n - 1) % REFRESH_EVERY = 0

\* `if frame_count % 10 == 0`, on the incremented frame_count
IsRefreshFrame(n) ==
    n % REFRESH_EVERY = 0

\* one iteration of the frame loop of show_live / show_analysis
FrameLoop(on_page) ==
    /\ page = on_page
    /\ streaming
    /\ frame_count < AppFrames
    /\ \E n \in AppCounts :
          LET r == process_frame(n)
              refresh == IsRefreshFrame(frame_count + 1)
          IN  /\ app_count' = r.total_persons
              /\ status_text' = r.status_text
              /\ css_class' = r.css_class
              /\ frame_count' = frame_count + 1
              /\ app_display_status' = IF refresh THEN r.status_text
                                       ELSE app_display_status
              /\ display_density' = IF refresh THEN create_density_bar(r.total_persons)
                                    ELSE display_density
              /\ display_css' = IF refresh THEN r.css_class ELSE display_css
    /\ UNCHANGED <<streaming, sessionVars, piVars>>

LiveFrame == FrameLoop("live")

AnalysisFrame == FrameLoop("analysis")

\* `if not ret: break`: the camera fails or the video ends
LoopEnd ==
    /\ page \in {"live", "analysis"}
    /\ streaming
    /\ streaming' = FALSE
    /\ UNCHANGED <<frame_count, app_display_status, display_density, display_css,
                   app_count, status_text, css_class, sessionVars, piVars>>

NextApp ==
    \/ StartLive
    \/ AnalyzeUpload
    \/ LiveBack
    \/ AnalysisBack
    \/ ToggleTheme
    \/ LiveFrame
    \/ AnalysisFrame
    \/ LoopEnd

SpecApp == Init /\ [][NextApp]_vars

(* ---- properties of the main loop ---- *)

\* the number of most recent consecutive frames whose count was strictly
\* above CRITICAL_LIMIT, from the frame indices
HighRun == frames_seen - last_low_frame

\* C1: a frame's status is Critical only if that frame and at least the
\* BUFFER_SIZE frames before it (BUFFER_SIZE + 1 = 46 in all) had counts
\* strictly above CRITICAL_LIMIT.
C1_CriticalNeedsFullStreak ==
    display_status = CRITICAL =>
        /\ HighRun >= BUFFER_SIZE + 1
        /\ total_persons > CRITICAL_LIMIT

\* the first Critical frame: exactly BUFFER_SIZE + 1 high frames
C1_Witness ==
    /\ display_status = CRITICAL
    /\ HighRun = BUFFER_SIZE + 1
    /\ prev_status = WARNING

\* C2: a frame with count <= CRITICAL_LIMIT (equal to it, or 0, included)
\* leaves consecutive_critical_frames at 0 and is not Critical, whatever the
\* streak before it; the high frame that follows it starts the streak at 1.
C2_DropResetsStreak ==
    [][ /\ (frames_seen' = frames_seen + 1 /\ total_persons' <= CRITICAL_LIMIT)
            => (consecutive_critical_frames' = 0 /\ display_status' # CRITICAL)
        /\ (frames_seen' = frames_seen + 1 /\ frames_seen > 0
              /\ total_persons <= CRITICAL_LIMIT /\ total_persons' > CRITICAL_LIMIT)
            => consecutive_critical_frames' = 1 ]_vars

\* a count exactly at the threshold right after a Critical frame
C2_Witness ==
    /\ prev_status = CRITICAL
    /\ total_persons = CRITICAL_LIMIT
    /\ consecutive_critical_frames = 0
    /\ display_status = WARNING

\* C3: a frame with count <= WARNING_LIMIT is Normal and leaves the counter
\* at 0, whatever came before (WARNING_LIMIT <= CRITICAL_LIMIT).
C3_LowCountIsNormal ==
    (WARNING_LIMIT <= CRITICAL_LIMIT /\ frames_seen > 0 /\ total_persons <= WARNING_LIMIT) =>
        /\ display_status = NORMAL
        /\ consecutive_critical_frames = 0

\* a count exactly at the warning threshold right after a Critical frame
C3_Witness ==
    /\ frames_seen > 0
    /\ total_persons = WARNING_LIMIT
    /\ prev_status = CRITICAL
    /\ display_status = NORMAL

\* C4: a frame with WARNING_LIMIT < count < CRITICAL_LIMIT is "High
\* Density", whatever came before.
C4_MidCountIsWarning ==
    (frames_seen > 0 /\ WARNING_LIMIT < total_persons /\ total_persons < CRITICAL_LIMIT) =>
        display_status = WARNING

\* such a frame right after a Critical frame
C4_Witness ==
    /\ WARNING_LIMIT < total_persons
    /\ total_persons < CRITICAL_LIMIT
    /\ prev_status = CRITICAL
    /\ display_status = WARNING

\* C6: an alert is printed more than the cooldown after the alert before it.
C6_AlertsApartByCooldown ==
    [][ (frames_seen' = frames_seen + 1 /\ alerted' /\ alert_time # -1)
            => now' - alert_time > CooldownTicks ]_vars

\* a re-entry into Critical within the cooldown of an earlier alert: no alert
C6_Witness ==
    /\ display_status = CRITICAL
    /\ prev_status # CRITICAL
    /\ alert_time # -1
    /\ now - alert_time <= CooldownTicks
    /\ ~alerted

\* C7 as stated: the counter is the number of most recent consecutive frames
\* with count >= CRITICAL_LIMIT (a count equal to the threshold counts).
C7_CounterCountsAtOrAbove ==
    at_or_above_run # -1 => consecutive_critical_frames = at_or_above_run

\* C7 amended: the counter is the number of most recent consecutive frames
\* with count strictly above CRITICAL_LIMIT; a count equal to it resets.
C7_CounterCountsStrictlyAbove ==
    /\ consecutive_critical_frames = HighRun
    /\ (frames_seen > 0 /\ total_persons = CRITICAL_LIMIT) => consecutive_critical_frames = 0

\* a count equal to the threshold ends a streak that the at-or-above run continues
C7_Witness ==
    /\ total_persons = CRITICAL_LIMIT
    /\ at_or_above_run > 1
    /\ consecutive_critical_frames = 0

\* C9: once BUFFER_SIZE + 1 consecutive frames are strictly above
\* CRITICAL_LIMIT the status is Critical, and stays so on every further frame
\* of the streak; the earlier frames of the streak are "High Density".
C9_FullStreakIsCritical ==
    /\ HighRun >= BUFFER_SIZE + 1 => display_status = CRITICAL
    /\ (1 <= HighRun /\ HighRun <= BUFFER_SIZE) => display_status = WARNING
    /\ (frames_seen > 0 /\ HighRun = 0) => display_status # CRITICAL

\* a later frame of the streak, still Critical
C9_Witness ==
    /\ HighRun > BUFFER_SIZE + 2
    /\ display_status = CRITICAL
    /\ prev_status = CRITICAL

\* C10: only a Critical frame prints an alert, so an alert has a count above
\* CRITICAL_LIMIT and a streak longer than BUFFER_SIZE.
C10_AlertOnlyWhenCritical ==
    alerted =>
        /\ display_status = CRITICAL
        /\ total_persons > CRITICAL_LIMIT
        /\ HighRun > BUFFER_SIZE

\* an alert in the middle of a Critical streak, after the cooldown of the first
C10_Witness ==
    /\ alerted
    /\ prev_status = CRITICAL
    /\ display_status = CRITICAL


\* C5: under thresholds (20, 25) and persistence window 3, the counts
\* [30,30,30,30,10,30,30,30,30] fed from the initial state give the statuses
\* [Warning,Warning,Warning,Critical,Normal,Warning,Warning,Warning,Critical].
C5_ScenarioStatuses ==
    /\ status_log = SubSeq(ScenarioStatuses, 1, frames_seen)
    /\ frames_seen = Len(ScenarioCounts) => status_log = ScenarioStatuses

\* the whole script has been fed
C5_Witness ==
    /\ frames_seen = Len(ScenarioCounts)
    /\ Len(status_log) = Len(ScenarioCounts)
    /\ display_status = CRITICAL

\* C8: the status and the counter of a frame depend on the counts alone: two
\* runs fed the same counts with different clocks and different
\* last_alert_time agree on both after every frame.
C8_TimingIndependent ==
    /\ display_status = shadow.display_status
    /\ consecutive_critical_frames = shadow.consecutive_critical_frames

\* a Critical frame on which one run prints an alert and the other does not
C8_Witness ==
    /\ display_status = CRITICAL
    /\ alerted # shadow.alerted
    /\ now # shadow.now
    /\ last_alert_time # shadow.last_alert_time

\* C11 as stated: every frame that is Critical after a frame that was not
\* prints an alert.
C11_EveryEntryAlerts ==
    (frames_seen > 0 /\ display_status = CRITICAL /\ prev_status # CRITICAL) => alerted

\* C11 amended: a frame that is Critical after a frame that was not prints an
\* alert exactly when the clock is more than the cooldown past
\* last_alert_time; the first Critical frame after start always does.
C11_EntryAlertsAfterCooldown ==
    [][ (frames_seen' = frames_seen + 1 /\ display_status' = CRITICAL
          /\ display_status # CRITICAL)
            => /\ alerted' <=> (now' - last_alert_time > CooldownTicks)
               /\ alerts_emitted = 0 => alerted' ]_vars

\* a second entry into Critical, past the cooldown of the first alert: it alerts
C11_Witness ==
    /\ display_status = CRITICAL
    /\ prev_status # CRITICAL
    /\ alerted
    /\ alerts_emitted = 2

\* C12: last_alert_time changes only on a frame that prints an alert, and
\* then becomes the clock read at that print; every other frame (Normal,
\* "High Density", or Critical within the cooldown) leaves it as it was, so
\* it never decreases and a reset of the counter does not touch it.
C12_StampOnlyOnAlert ==
    [][ /\ (frames_seen' = frames_seen + 1 /\ alerted')
            => (last_alert_time' - now') \in ReadGaps
        /\ ~(frames_seen' = frames_seen + 1 /\ alerted')
            => last_alert_time' = last_alert_time
        /\ last_alert_time' >= last_alert_time ]_vars

\* the frame that drops out of Critical after an alert: the stamp is kept
C12_Witness ==
    /\ prev_status = CRITICAL
    /\ display_status = NORMAL
    /\ consecutive_critical_frames = 0
    /\ ~alerted
    /\ last_alert_time >= alert_time
    /\ alert_time > 0

\* C15: the counter is positive exactly when the last frame's count was above
\* CRITICAL_LIMIT, never exceeds the number of frames processed, and a
\* Critical frame has a count above CRITICAL_LIMIT; a frame either adds one
\* to the counter or sets it to 0.
C15_CounterShape ==
    /\ [](frames_seen > 0 =>
             (consecutive_critical_frames > 0 <=> total_persons > CRITICAL_LIMIT))
    /\ [](consecutive_critical_frames >= 0 /\ consecutive_critical_frames <= frames_seen)
    /\ [](display_status = CRITICAL => total_persons > CRITICAL_LIMIT)
    /\ [][ IF frames_seen' = frames_seen + 1
           THEN \/ consecutive_critical_frames' = consecutive_critical_frames + 1
                \/ consecutive_critical_frames' = 0
           ELSE consecutive_critical_frames' = consecutive_critical_frames ]_vars

\* every frame so far was high: the counter equals the number of frames
C15_Witness ==
    /\ frames_seen > BUFFER_SIZE
    /\ consecutive_critical_frames = frames_seen
    /\ display_status = CRITICAL
    /\ total_persons > CRITICAL_LIMIT

\* C13: on every frame of every sequence of counts, process_frame of app.py
\* (and the status block of its checkpoint copy) gives the status the
\* debouncer gives under thresholds (20, 25) and persistence window 0.
C13_ClassifierIsDebouncerWithoutWindow ==
    frames_seen > 0 =>
        /\ status_text = display_status
        /\ checkpoint_status(total_persons) = display_status
        /\ app_count = total_persons

\* a single high frame after a lower one: Critical at once in both
C13_Witness ==
    /\ frames_seen > 1
    /\ prev_status = WARNING
    /\ consecutive_critical_frames = 1
    /\ status_text = CRITICAL
    /\ display_status = CRITICAL

(* ---- properties of the frame loops of app.py ---- *)

\* what the status box shows
Display == <<app_display_status, display_density, display_css>>

\* the status box before the first refresh
InitialDisplay == <<INITIALIZING, InitialDensity, "status-normal">>

\* the first nine frames of a loop show "Initializing..." in the normal style
C14_InitializingAtFirst ==
    frame_count < 10 => Display = InitialDisplay

\* a frame whose index is a multiple of 10 puts its own values in the status
\* box, any other frame leaves the box as it was
C14_RefreshStep ==
    frame_count' = frame_count + 1 =>
        IF frame_count' % 10 = 0
        THEN Display' = <<status_text', create_density_bar(app_count'), css_class'>>
        ELSE Display' = Display

\* the status box changes only on such a frame, or when a loop starts afresh
C14_RefreshOnly ==
    Display' # Display =>
        \/ frame_count' = frame_count + 1 /\ frame_count' % 10 = 0
        \/ frame_count' = 0 /\ Display' = InitialDisplay

\* C14 as stated: ..., so on a Critical frame whose index is not a multiple
\* of 10 the status box does not show Critical.
C14_CriticalOffSampleNeverShown ==
    /\ []C14_InitializingAtFirst
    /\ [][C14_RefreshStep /\ C14_RefreshOnly]_vars
    /\ []((frame_count % 10 # 0 /\ status_text = CRITICAL)
             => app_display_status # CRITICAL)

\* C14 amended: the status box is refreshed only on frames whose index is a
\* multiple of 10 and shows "Initializing..." for the first nine, so it
\* turns Critical only on a multiple-of-10 frame that is Critical, and on
\* any other frame shows what the last multiple-of-10 frame left there.
C14_DisplaySampledEveryTenth ==
    /\ []C14_InitializingAtFirst
    /\ [][C14_RefreshStep /\ C14_RefreshOnly]_vars
    /\ [][(app_display_status' = CRITICAL /\ app_display_status # CRITICAL)
             => (frame_count' % 10 = 0 /\ status_text' = CRITICAL)]_vars

\* a Critical frame between two refreshes while the box still shows Normal
C14_Witness ==
    /\ frame_count > 10
    /\ frame_count % 10 # 0
    /\ status_text = CRITICAL
    /\ app_display_status = NORMAL
    /\ display_density = create_density_bar(0)

(* ---- properties of the session state of app.py ---- *)

PageMoves ==
    {<<"home", "live">>, <<"home", "analysis">>, <<"live", "home">>, <<"analysis", "home">>}

\* C16: page is home, live or analysis; it moves only home->live,
\* home->analysis, live->home, analysis->home; video_source is set exactly
\* while page = analysis, and a change of theme touches neither.
C16_SessionState ==
    /\ [](page \in {"home", "live", "analysis"})
    /\ []((video_source # NoSource) <=> (page = "analysis"))
    /\ [][page' # page => <<page, page'>> \in PageMoves]_vars
    /\ [][theme' # theme => (page' = page /\ video_source' = video_source)]_vars

\* back on home from analysis, in the dark theme: the source is cleared
C16_Witness ==
    /\ page = "home"
    /\ prev_page = "analysis"
    /\ theme = "dark"
    /\ video_source = NoSource

====
